---------------------------- MODULE Spec2Model ----------------------------
(***************************************************************************)
(* A model of the Flask application in src/app.py (portfolio site with     *)
(* accounts, DataHub, bike rental and pet shop) and src/modules/           *)
(* email_utils.py.                                                         *)
(*                                                                         *)
(* Text is modelled as a sequence of characters, each character a string   *)
(* token: <<"a", "B">> is the Python str "aB".  The tokens "e-acute" and   *)
(* "E-acute" stand for the single characters U+00E9 and U+00C9.            *)
(*                                                                         *)
(* Lines 275-279 of src/app.py are dedented; they are read as the body of  *)
(* the `if not is_strong_password(password):` of line 274, which is the    *)
(* only reading under which the file is a Python program.                  *)
(***************************************************************************)
EXTENDS Integers, Sequences, FiniteSets, TLC

VARIABLES
    users,            \* table users: sequence of rows, row i has id i
    datahub_records,  \* table datahub_records: set of rows
    datahub_seq,      \* AUTOINCREMENT counter of datahub_records
    bike_bookings,    \* table bike_bookings: sequence of rows, row i has id i
    pet_orders,       \* table pet_orders: sequence of rows, row i has id i
    pet_order_items,  \* table pet_order_items: sequence of rows
    session,          \* the client's Flask session: keys among user_id, cart
    outbox,           \* send_email calls made so far, in order
    now,              \* datetime.now(), in whole seconds
    req,              \* the request handled last
    resp              \* the response to it

vars == <<users, datahub_records, datahub_seq, bike_bookings, pet_orders,
          pet_order_items, session, outbox, now, req, resp>>

db == <<users, datahub_records, datahub_seq, bike_bookings, pet_orders,
        pet_order_items>>

-----------------------------------------------------------------------------
(* Bounds of the model.                                                    *)

\* rows the requests may insert in all into bike_bookings, pet_orders and
\* datahub_records
MaxRows == 1
\* units a customer may handle: those in the cart and those already ordered
MaxCartItems == 3
\* calls of send_email
MaxMail == 1
\* seconds the wall clock may advance
MaxClock == 1
\* receipt mails when the bike rental is checked alone
MaxReceipts == 2
\* DataHub records that may exist at once when the DataHub is checked alone
MaxRecords == 2
\* passwords tried: up to MaxPad lower-case letters, then up to MaxTail
\* characters of any kind
MaxPad == 7
MaxTail == 3

-----------------------------------------------------------------------------
(* Python str operations.                                                  *)

AsciiUpper == {"A", "B", "C", "D", "E", "F", "G", "H", "I", "J", "K", "L", "M",
               "N", "O", "P", "Q", "R", "S", "T", "U", "V", "W", "X", "Y", "Z"}

AsciiLower == {"a", "b", "c", "d", "e", "f", "g", "h", "i", "j", "k", "l", "m",
               "n", "o", "p", "q", "r", "s", "t", "u", "v", "w", "x", "y", "z"}

AsciiDigit == {"0", "1", "2", "3", "4", "5", "6", "7", "8", "9"}

Whitespace == {" ", "\t", "\n", "\r"}

\* str.lower() on one character
LowerChar(c) ==
    CASE c = "A" -> "a" [] c = "B" -> "b" [] c = "C" -> "c" [] c = "D" -> "d"
      [] c = "E" -> "e" [] c = "F" -> "f" [] c = "G" -> "g" [] c = "H" -> "h"
      [] c = "I" -> "i" [] c = "J" -> "j" [] c = "K" -> "k" [] c = "L" -> "l"
      [] c = "M" -> "m" [] c = "N" -> "n" [] c = "O" -> "o" [] c = "P" -> "p"
      [] c = "Q" -> "q" [] c = "R" -> "r" [] c = "S" -> "s" [] c = "T" -> "t"
      [] c = "U" -> "u" [] c = "V" -> "v" [] c = "W" -> "w" [] c = "X" -> "x"
      [] c = "Y" -> "y" [] c = "Z" -> "z" [] c = "E-acute" -> "e-acute"
      [] OTHER -> c

Lower(s) == [i \in 1..Len(s) |-> LowerChar(s[i])]

RECURSIVE LStrip(_)
LStrip(s) == IF s # <<>> /\ Head(s) \in Whitespace THEN LStrip(Tail(s)) ELSE s

RECURSIVE RStrip(_)
RStrip(s) ==
    IF s # <<>> /\ s[Len(s)] \in Whitespace
    THEN RStrip(SubSeq(s, 1, Len(s) - 1))
    ELSE s

Strip(s) == RStrip(LStrip(s))

DigitValue(c) ==
    CASE c = "0" -> 0 [] c = "1" -> 1 [] c = "2" -> 2 [] c = "3" -> 3
      [] c = "4" -> 4 [] c = "5" -> 5 [] c = "6" -> 6 [] c = "7" -> 7
      [] c = "8" -> 8 [] c = "9" -> 9

DigitChar(d) == <<"0", "1", "2", "3", "4", "5", "6", "7", "8", "9">>[d + 1]

RECURSIVE DigitsValue(_)
DigitsValue(s) ==
    IF s = <<>> THEN 0
    ELSE 10 * DigitsValue(SubSeq(s, 1, Len(s) - 1)) + DigitValue(s[Len(s)])

\* int(s) for a str s: surrounding whitespace and a sign are accepted, then
\* decimal digits; anything else raises ValueError (ok = FALSE).
PyInt(s) ==
    LET t == Strip(s)
        signed == t # <<>> /\ Head(t) \in {"+", "-"}
        d == IF signed THEN Tail(t) ELSE t
    IN  IF d # <<>> /\ \A i \in 1..Len(d) : d[i] \in AsciiDigit
        THEN [ok |-> TRUE,
              val |-> IF signed /\ Head(t) = "-" THEN 0 - DigitsValue(d)
                      ELSE DigitsValue(d)]
        ELSE [ok |-> FALSE, val |-> 0]

\* str(n) for an int n >= 0
RECURSIVE PyStr(_)
PyStr(n) == IF n < 10 THEN <<DigitChar(n)>>
            ELSE PyStr(n \div 10) \o <<DigitChar(n % 10)>>

-----------------------------------------------------------------------------
(* Auth helpers.                                                           *)

MinPasswordLen == 8

is_strong_password_no_length(password) ==
    /\ \E i \in 1..Len(password) : password[i] \in AsciiUpper
    /\ \E i \in 1..Len(password) : password[i] \in AsciiDigit
    /\ \E i \in 1..Len(password) :
          password[i] \notin AsciiUpper \cup AsciiLower \cup AsciiDigit

is_strong_password(password) ==
    /\ ~(Len(password) < MinPasswordLen)
    /\ \E i \in 1..Len(password) : password[i] \in AsciiUpper
    /\ \E i \in 1..Len(password) : password[i] \in AsciiDigit
    /\ \E i \in 1..Len(password) :
          password[i] \notin AsciiUpper \cup AsciiLower \cup AsciiDigit


None == <<>>

\* request.form.get(key, "") and request.args.get(key): a missing key reads
\* as the empty str (or None, equally falsy)
FormGet(form, key) == IF key \in DOMAIN form THEN form[key] ELSE <<>>

\* a response: the status code, the template rendered or the endpoint
\* redirected to (with its id argument and its next parameter), the error
\* shown and the message flashed
Render(view, error, flash) ==
    [code |-> 200, view |-> view, arg |-> 0, error |-> error, flash |-> flash,
     next |-> None]

Redirect(to, flash, next) ==
    [code |-> 302, view |-> to, arg |-> 0, error |-> "", flash |-> flash,
     next |-> next]

RedirectTo(to, arg, flash) ==
    [code |-> 302, view |-> to, arg |-> arg, error |-> "", flash |-> flash,
     next |-> None]

Abort(code, message) ==
    [code |-> code, view |-> "", arg |-> 0, error |-> message, flash |-> "",
     next |-> None]

\* session.get("user_id"), 0 standing for None
SessionUserId(s) == IF "user_id" \in DOMAIN s THEN s["user_id"] ELSE 0

SessionSet(s, key, value) ==
    [k \in DOMAIN s \cup {key} |-> IF k = key THEN value ELSE s[k]]

login_required_disabled(s) == TRUE

\* the test of the wrapper of login_required: TRUE when the view may run
login_required(s) == SessionUserId(s) # 0

LoginRedirect_forgets_path(path) ==
    [code |-> 302, view |-> "login", arg |-> 0, error |-> "",
     flash |-> "Please log in to access this page.", next |-> <<>>]

\* next_url = request.path; redirect(url_for("login", next=next_url))
LoginRedirect(path) ==
    Redirect("login", "Please log in to access this page.", path)

check_password_hash_any(pwhash, password) == TRUE

generate_password_hash(password) == [method |-> "salted-hash", of |-> password]

check_password_hash(pwhash, password) ==
    pwhash = generate_password_hash(password)

NormalizeEmail_no_lower(raw) == Strip(raw)

\* request.form.get("email", "").strip().lower()
NormalizeEmail(raw) == Lower(Strip(raw))

UsersByEmail(email) == {i \in 1..Len(users) : users[i].email = email}

-----------------------------------------------------------------------------
(* Routes: Auth.                                                           *)

\* env: what the environment decides during the request (a database fault,
\* the outcome of the mail delivery); None where the handler asks for neither
Request(route, method, arg, args, form, env) ==
    [route |-> route, method |-> method, arg |-> arg, args |-> args,
     form |-> form, env |-> env]

signup(method, form) ==
    LET name == Strip(FormGet(form, "name"))
        email == NormalizeEmail(FormGet(form, "email"))
        password == Strip(FormGet(form, "password"))
        weak == ~is_strong_password(password)
        missing == name = <<>> \/ email = <<>> \/ password = <<>>
        exists == UsersByEmail(email) # {}
        inserts == method = "POST" /\ ~weak /\ ~missing /\ ~exists
    IN  /\ req' = Request("signup", method, 0, None, form, None)
        /\ users' = IF inserts
                    THEN Append(users,
                                [id |-> Len(users) + 1,
                                 name |-> name,
                                 email |-> email,
                                 password_hash |-> generate_password_hash(password),
                                 created_at |-> now])
                    ELSE users
        /\ resp' = IF method # "POST" THEN Render("signup.html", "", "")
                   ELSE IF weak
                   THEN Redirect("signup",
                                 "Password must contain at least 1 uppercase letter, 1 number, and 1 special character",
                                 None)
                   ELSE IF missing
                   THEN Render("signup.html", "All fields are required.", "")
                   ELSE IF exists
                   THEN Render("signup.html",
                               "An account with this email already exists.", "")
                   ELSE Redirect("login", "Account created. Please log in.", None)
        /\ UNCHANGED <<datahub_records, datahub_seq, bike_bookings, pet_orders,
                       pet_order_items, session, outbox, now>>

login_error_tells_why(row_found) ==
    IF row_found THEN "Wrong password." ELSE "No account with this email."

\* error = "Invalid email or password.", in the one else branch that serves
\* the missing row and the wrong password
login_error(row_found) == "Invalid email or password."

login(method, args, form) ==
    LET next_url == IF FormGet(args, "next") # <<>> THEN args["next"] ELSE <<"/">>
        email == NormalizeEmail(FormGet(form, "email"))
        password == Strip(FormGet(form, "password"))
        found == UsersByEmail(email)
        row == users[CHOOSE i \in found : TRUE]
        ok == /\ method = "POST"
              /\ found # {}
              /\ check_password_hash(row.password_hash, password)
    IN  /\ req' = Request("login", method, 0, args, form, None)
        /\ session' = IF ok THEN SessionSet(session, "user_id", row.id) ELSE session
        /\ resp' = IF ok THEN Redirect("redirect", "Logged in successfully.", next_url)
                   ELSE IF method = "POST"
                   THEN Render("login.html", login_error(found # {}), "")
                   ELSE Render("login.html", "", "")
        /\ UNCHANGED <<db, outbox, now>>

SessionClear_identity_only(s) == [k \in DOMAIN s \ {"user_id"} |-> s[k]]

\* session.clear()
SessionClear(s) == <<>>

logout ==
    /\ req' = Request("logout", "GET", 0, None, None, None)
    /\ session' = SessionClear(session)
    /\ resp' = Redirect("index", "You have been logged out.", None)
    /\ UNCHANGED <<db, outbox, now>>

-----------------------------------------------------------------------------
(* Catalog seeded by init_db; the request path never writes it.            *)

bikes ==
    << [id |-> 1, name |-> "Yamaha MT-15", type |-> "Sport", price_per_day |-> 900],
       [id |-> 2, name |-> "Royal Enfield Classic 350", type |-> "Cruiser",
        price_per_day |-> 1100],
       [id |-> 3, name |-> "Honda Activa 6G", type |-> "Scooter", price_per_day |-> 600] >>

pet_products ==
    << [id |-> 1, name |-> "Premium Dog Food", category |-> "Food", price |-> 799],
       [id |-> 2, name |-> "Cat Scratching Post", category |-> "Accessories",
        price |-> 1299],
       [id |-> 3, name |-> "Pet Water Bowl", category |-> "Accessories", price |-> 299] >>

\* send_email: the call is recorded.  Whether it returns or raises (the
\* RuntimeError of missing credentials, an SMTP error) is the mail_ok of the
\* request; the callers catch what it raises.
send_email(to_email, subject, ref) ==
    Append(outbox, [to |-> to_email, subject |-> subject, ref |-> ref])

CatchEmailError_reraises(mail_ok, response) ==
    IF mail_ok THEN response
    ELSE [code |-> 500, view |-> "", arg |-> 0, error |-> "RuntimeError",
          flash |-> "", next |-> <<>>]

\* try: send_email(...) except Exception as e: print(...): what send_email
\* raises is printed and the handler goes on to the response it was about to
\* give
CatchEmailError(mail_ok, response) == response

RowCount == Len(bike_bookings) + Len(pet_orders) + Cardinality(datahub_records)

RECURSIVE OrderedUnits(_)
OrderedUnits(items) ==
    IF items = <<>> THEN 0 ELSE Head(items).quantity + OrderedUnits(Tail(items))

-----------------------------------------------------------------------------
(* Helpers: PetShop cart in session.                                       *)

get_cart(s) == IF "cart" \in DOMAIN s THEN s["cart"] ELSE <<>>

save_cart(s, cart) == SessionSet(s, "cart", cart)

\* cart.get(key, 0)
CartGet(cart, key) == IF key \in DOMAIN cart THEN cart[key] ELSE 0

CartPut(cart, key, qty) ==
    [k \in DOMAIN cart \cup {key} |-> IF k = key THEN qty ELSE cart[k]]

CartDel(cart, key) == [k \in DOMAIN cart \ {key} |-> cart[k]]

RECURSIVE SumOver(_, _)
SumOver(f, keys) ==
    IF keys = {} THEN 0
    ELSE LET k == CHOOSE x \in keys : TRUE IN f[k] + SumOver(f, keys \ {k})

\* sum(cart.values())
CartCount(cart) == SumOver(cart, DOMAIN cart)

\* list(map(int, cart.keys())) raises ValueError on a key that is no integer
CartKeysAreInts(cart) == \A k \in DOMAIN cart : PyInt(k).ok

CartProductIds(cart) == {PyInt(k).val : k \in DOMAIN cart}

\* qty = cart.get(str(row["id"]), 0)
MaterializeQty(cart, id) == CartGet(cart, PyStr(id))

\* SELECT * FROM pet_products WHERE id IN (...), and the loop over its rows
RECURSIVE MaterializeFrom(_, _)
MaterializeFrom(cart, i) ==
    IF i > Len(pet_products) THEN <<>>
    ELSE (IF pet_products[i].id \in CartProductIds(cart)
          THEN << [id |-> pet_products[i].id,
                   name |-> pet_products[i].name,
                   quantity |-> MaterializeQty(cart, pet_products[i].id),
                   price |-> pet_products[i].price] >>
          ELSE <<>>) \o MaterializeFrom(cart, i + 1)

Materialize(cart) == MaterializeFrom(cart, 1)

TotalAmount_first_only(products) ==
    IF products = <<>> THEN 0 ELSE Head(products).quantity * Head(products).price

\* total_amount += qty * row["price"], over the rows
RECURSIVE TotalAmount(_)
TotalAmount(products) ==
    IF products = <<>> THEN 0
    ELSE Head(products).quantity * Head(products).price + TotalAmount(Tail(products))

-----------------------------------------------------------------------------
(* Routes: PetShop.                                                        *)

pet_home(method, form) ==
    LET product_id == FormGet(form, "product_id")
        cart == get_cart(session)
        adds == method = "POST" /\ product_id # <<>>
    IN  /\ req' = Request("pet_home", method, 0, None, form, None)
        /\ IF ~login_required(session)
           THEN /\ resp' = LoginRedirect(<<"/petshop">>)
                /\ UNCHANGED session
           ELSE /\ adds => CartCount(cart) + OrderedUnits(pet_order_items)
                               < MaxCartItems
                /\ session' = IF adds
                              THEN save_cart(session,
                                             CartPut(cart, product_id,
                                                     CartGet(cart, product_id) + 1))
                              ELSE session
                /\ resp' = Render("pet_home.html", "",
                                  IF adds THEN "Item added to cart." ELSE "")
        /\ UNCHANGED <<db, outbox, now>>

pet_cart(method, form) ==
    LET cart == get_cart(session)
        remove_id == FormGet(form, "remove_id")
        removes == method = "POST" /\ remove_id # <<>> /\ remove_id \in DOMAIN cart
    IN  /\ req' = Request("pet_cart", method, 0, None, form, None)
        /\ IF ~login_required(session)
           THEN /\ resp' = LoginRedirect(<<"/petshop/cart">>)
                /\ UNCHANGED session
           ELSE IF ~CartKeysAreInts(cart)
           THEN /\ resp' = Abort(500, "ValueError")
                /\ UNCHANGED session
           ELSE IF removes
           THEN /\ session' = save_cart(session, CartDel(cart, remove_id))
                /\ resp' = Redirect("pet_cart", "Item removed from cart.", None)
           ELSE /\ resp' = Render("pet_cart.html", "", "")
                /\ UNCHANGED session
        /\ UNCHANGED <<db, outbox, now>>

Rollback_autocommit(table, pending) == table \o pending

\* a transaction that never reaches conn.commit(): the connection is dropped
\* and sqlite discards what it wrote
Rollback(table, pending) == table

\* conn.commit()
Commit(table, pending) == table \o pending

OrderItemRows(order_id, products) ==
    [j \in 1..Len(products) |->
        [id |-> Len(pet_order_items) + j,
         order_id |-> order_id,
         product_name |-> products[j].name,
         quantity |-> products[j].quantity,
         price_each |-> products[j].price]]

cart_after_checkout_kept(s) == s

\* save_cart({}) after the commit
cart_after_checkout(s) == save_cart(s, <<>>)

CartIsEmpty_never(cart) == FALSE

\* `not cart`: no cart in the session, or one without entries
CartIsEmpty(cart) == cart = <<>>

\* fault = 0: every statement succeeds; fault = k > 0: the k-th statement of
\* the transaction (the order insert, the item inserts, the commit) raises
pet_checkout(method, form, fault, mail_ok) ==
    LET cart == get_cart(session)
        products == Materialize(cart)
        total_amount == TotalAmount(products)
        name == Strip(FormGet(form, "name"))
        email == Strip(FormGet(form, "email"))
        phone == Strip(FormGet(form, "phone"))
        order_id == Len(pet_orders) + 1
        order == [id |-> order_id, customer_name |-> name, email |-> email,
                  phone |-> phone, total_amount |-> total_amount,
                  created_at |-> now]
        items == OrderItemRows(order_id, products)
        done == fault - 1
        env == [fault |-> fault, mail_ok |-> mail_ok]
        transacts == /\ login_required(session)
                     /\ ~CartIsEmpty(cart)
                     /\ CartKeysAreInts(cart)
                     /\ method = "POST"
                     /\ name # <<>> /\ email # <<>> /\ phone # <<>>
    IN  /\ ~transacts => fault = 0
        /\ ~(transacts /\ fault = 0) => mail_ok
        /\ req' = Request("pet_checkout", method, 0, None, form, env)
        /\ IF ~login_required(session)
           THEN /\ resp' = LoginRedirect(<<"/petshop/checkout">>)
                /\ UNCHANGED <<pet_orders, pet_order_items, session, outbox>>
           ELSE IF CartIsEmpty(cart)
           THEN /\ resp' = Redirect("pet_home", "Your cart is empty.", None)
                /\ UNCHANGED <<pet_orders, pet_order_items, session, outbox>>
           ELSE IF ~CartKeysAreInts(cart)
           THEN /\ resp' = Abort(500, "ValueError")
                /\ UNCHANGED <<pet_orders, pet_order_items, session, outbox>>
           ELSE IF method # "POST"
           THEN /\ resp' = Render("pet_checkout.html", "", "")
                /\ UNCHANGED <<pet_orders, pet_order_items, session, outbox>>
           ELSE IF name = <<>> \/ email = <<>> \/ phone = <<>>
           THEN /\ resp' = Render("pet_checkout.html",
                                  "Name, email, and mobile number are required.", "")
                /\ UNCHANGED <<pet_orders, pet_order_items, session, outbox>>
           ELSE IF fault > 0
           THEN /\ fault <= Len(products) + 2
                /\ pet_orders' = Rollback(pet_orders,
                                          IF done >= 1 THEN <<order>> ELSE <<>>)
                /\ pet_order_items' =
                       Rollback(pet_order_items,
                                IF done >= 2
                                THEN SubSeq(items, 1,
                                            IF done - 1 < Len(items)
                                            THEN done - 1 ELSE Len(items))
                                ELSE <<>>)
                /\ resp' = Abort(500, "sqlite3.Error")
                /\ UNCHANGED <<session, outbox>>
           ELSE /\ RowCount < MaxRows
                /\ Len(outbox) < MaxMail
                /\ pet_orders' = Commit(pet_orders, <<order>>)
                /\ pet_order_items' = Commit(pet_order_items, items)
                /\ session' = cart_after_checkout(session)
                /\ outbox' = send_email(email, "Your PetShop Order Confirmation",
                                        order_id)
                /\ resp' = CatchEmailError(mail_ok,
                                           Render("pet_checkout_success.html",
                                                  "", ""))
        /\ UNCHANGED <<users, datahub_records, datahub_seq, bike_bookings, now>>

-----------------------------------------------------------------------------
(* datetime.date.                                                          *)

IsLeap(y) == y % 4 = 0 /\ (y % 100 # 0 \/ y % 400 = 0)

DaysInMonth(y, m) ==
    IF m = 2 THEN (IF IsLeap(y) THEN 29 ELSE 28)
    ELSE IF m \in {4, 6, 9, 11} THEN 30 ELSE 31

RECURSIVE DaysBeforeMonth(_, _)
DaysBeforeMonth(y, m) ==
    IF m = 1 THEN 0 ELSE DaysBeforeMonth(y, m - 1) + DaysInMonth(y, m - 1)

DaysBeforeYear(y) ==
    LET p == y - 1 IN p * 365 + p \div 4 - p \div 100 + p \div 400

\* date.fromisoformat(s) for the format YYYY-MM-DD: ok = FALSE is ValueError,
\* otherwise ord is the proleptic Gregorian ordinal of the date
fromisoformat(s) ==
    LET shaped == /\ Len(s) = 10
                  /\ s[5] = "-" /\ s[8] = "-"
                  /\ \A i \in {1, 2, 3, 4, 6, 7, 9, 10} : s[i] \in AsciiDigit
        y == DigitsValue(SubSeq(s, 1, 4))
        m == DigitsValue(SubSeq(s, 6, 7))
        d == DigitsValue(SubSeq(s, 9, 10))
    IN  IF /\ shaped
           /\ y >= 1
           /\ m \in 1..12
           /\ d >= 1 /\ d <= DaysInMonth(y, m)
        THEN [ok |-> TRUE, ord |-> DaysBeforeYear(y) + DaysBeforeMonth(y, m) + d]
        ELSE [ok |-> FALSE, ord |-> 0]

BookingDays_exclusive(start, end) == end.ord - start.ord

\* days = (end_date - start_date).days + 1
BookingDays(start, end) == end.ord - start.ord + 1

-----------------------------------------------------------------------------
(* Routes: Bike Rental.                                                    *)

BikeById(bike_id) == {i \in 1..Len(bikes) : bikes[i].id = bike_id}

bike_rental ==
    /\ req' = Request("bike_rental", "GET", 0, None, None, None)
    /\ resp' = IF ~login_required(session) THEN LoginRedirect(<<"/bike-rental">>)
               ELSE Render("bike_home.html", "", "")
    /\ UNCHANGED <<db, session, outbox, now>>

bike_detail(bike_id, method, form) ==
    LET found == BikeById(bike_id)
        bike == bikes[CHOOSE i \in found : TRUE]
        customer_name == Strip(FormGet(form, "name"))
        email == Strip(FormGet(form, "email"))
        phone == Strip(FormGet(form, "phone"))
        start_date_str == Strip(FormGet(form, "start_date"))
        end_date_str == Strip(FormGet(form, "end_date"))
        missing == \/ customer_name = <<>> \/ email = <<>> \/ phone = <<>>
                   \/ start_date_str = <<>> \/ end_date_str = <<>>
        start_date == fromisoformat(start_date_str)
        end_date == fromisoformat(end_date_str)
        days == BookingDays(start_date, end_date)
        booking_id == Len(bike_bookings) + 1
    IN  /\ req' = Request("bike_detail", method, bike_id, None, form, None)
        /\ IF ~login_required(session)
           THEN /\ resp' = LoginRedirect(<<"/bike-rental", bike_id>>)
                /\ UNCHANGED bike_bookings
           ELSE IF found = {}
           THEN /\ resp' = Abort(404, "Bike not found")
                /\ UNCHANGED bike_bookings
           ELSE IF method # "POST"
           THEN /\ resp' = Render("bike_detail.html", "", "")
                /\ UNCHANGED bike_bookings
           ELSE IF missing
           THEN /\ resp' = Render("bike_detail.html", "All fields are required.", "")
                /\ UNCHANGED bike_bookings
           ELSE IF ~start_date.ok \/ ~end_date.ok
           THEN /\ resp' = Render("bike_detail.html",
                                  "Please enter valid dates (YYYY-MM-DD).", "")
                /\ UNCHANGED bike_bookings
           ELSE IF days <= 0
           THEN /\ resp' = Render("bike_detail.html",
                                  "End date must be on or after start date.", "")
                /\ UNCHANGED bike_bookings
           ELSE /\ RowCount < MaxRows
                /\ bike_bookings' =
                       Append(bike_bookings,
                              [id |-> booking_id,
                               bike_id |-> bike_id,
                               customer_name |-> customer_name,
                               email |-> email,
                               phone |-> phone,
                               start_date |-> start_date_str,
                               end_date |-> end_date_str,
                               total_price |-> days * bike.price_per_day,
                               created_at |-> now])
                /\ resp' = RedirectTo("bike_booking_success", booking_id,
                                      "Bike booked successfully.")
        /\ UNCHANGED <<users, datahub_records, datahub_seq, pet_orders,
                       pet_order_items, session, outbox, now>>

bike_booking_success(booking_id, mail_ok) ==
    LET found == {i \in 1..Len(bike_bookings) :
                      /\ bike_bookings[i].id = booking_id
                      /\ BikeById(bike_bookings[i].bike_id) # {}}
        booking == bike_bookings[CHOOSE i \in found : TRUE]
        sends == login_required(session) /\ found # {}
    IN  /\ ~sends => mail_ok
        /\ req' = Request("bike_booking_success", "GET", booking_id, None, None,
                          [mail_ok |-> mail_ok])
        /\ IF ~login_required(session)
           THEN /\ resp' = LoginRedirect(<<"/bike-rental/booking", booking_id>>)
                /\ UNCHANGED outbox
           ELSE IF found = {}
           THEN /\ resp' = Abort(404, "Booking not found")
                /\ UNCHANGED outbox
           ELSE /\ outbox' = send_email(booking.email, "Your Bike Rental Receipt",
                                        booking_id)
                /\ resp' = CatchEmailError(mail_ok,
                                           Render("bike_booking_success.html",
                                                  "", ""))
        /\ UNCHANGED <<db, session, now>>

-----------------------------------------------------------------------------
(* Routes: DataHub.                                                        *)

\* the sequences that hold each of the rows once
Orderings(rows) ==
    {l \in [1..Cardinality(rows) -> rows] :
        \A i, j \in 1..Cardinality(rows) : l[i] = l[j] => i = j}

OrderByCreatedAt_ascending(rows) ==
    {l \in Orderings(rows) :
        \A i, j \in 1..Len(l) : i < j => l[i].created_at <= l[j].created_at}

\* SELECT * FROM datahub_records ORDER BY created_at DESC: the results the
\* query may give.  created_at is the only sort key and is a time in whole
\* seconds; the order of rows of the same second is left to sqlite.
OrderByCreatedAtDesc(rows) ==
    {l \in Orderings(rows) :
        \A i, j \in 1..Len(l) : i < j => l[i].created_at >= l[j].created_at}

\* render_template("datahub.html", user=user, records=records)
RenderRecords(flash, records) ==
    [code |-> 200, view |-> "datahub.html", arg |-> 0, error |-> "",
     flash |-> flash, next |-> None, records |-> records]

datahub(method, form) ==
    LET title == Strip(FormGet(form, "title"))
        content == Strip(FormGet(form, "content"))
        inserts == method = "POST" /\ title # <<>> /\ content # <<>>
        inserted == datahub_records \cup
                        {[id |-> datahub_seq + 1, title |-> title,
                          content |-> content, created_at |-> now]}
    IN  /\ req' = Request("datahub", method, 0, None, form, None)
        /\ IF ~login_required(session)
           THEN /\ resp' = LoginRedirect(<<"/datahub">>)
                /\ UNCHANGED <<datahub_records, datahub_seq>>
           ELSE IF inserts
           THEN /\ datahub_records' = inserted
                /\ datahub_seq' = datahub_seq + 1
                /\ \E records \in OrderByCreatedAtDesc(inserted) :
                      resp' = RenderRecords("Record added to DataHub.", records)
           ELSE /\ \E records \in OrderByCreatedAtDesc(datahub_records) :
                      resp' = RenderRecords(IF method = "POST"
                                            THEN "Both title and content are required."
                                            ELSE "",
                                            records)
                /\ UNCHANGED <<datahub_records, datahub_seq>>
        /\ UNCHANGED <<users, bike_bookings, pet_orders, pet_order_items,
                       session, outbox, now>>

delete_datahub_record(record_id) ==
    /\ req' = Request("delete_datahub_record", "POST", record_id, None, None, None)
    /\ IF ~login_required(session)
       THEN /\ resp' = LoginRedirect(<<"/datahub/delete", record_id>>)
            /\ UNCHANGED datahub_records
       ELSE /\ datahub_records' = {r \in datahub_records : r.id # record_id}
            /\ resp' = Redirect("datahub", "Record deleted.", None)
    /\ UNCHANGED <<users, datahub_seq, bike_bookings, pet_orders,
                   pet_order_items, session, outbox, now>>

\* a second passes on the wall clock
Tick ==
    /\ now < MaxClock
    /\ now' = now + 1
    /\ UNCHANGED <<db, session, outbox, req, resp>>

-----------------------------------------------------------------------------
(* Inputs of the requests.                                                 *)

NameText == <<"S", "a", "m">>
PhoneText == <<"5", "5", "5">>
MailA == <<"a", "@", "x">>
MailB == <<"b", "@", "x">>
StrongPassword == <<"P", "a", "s", "s", "w", "0", "r", "d", "!">>
OtherPassword == <<"S", "e", "c", "r", "e", "t", "#", "1">>
WeakPassword == <<"p", "a", "s", "s", "w", "o", "r", "d">>
ShortPassword == <<"P", "w", "1", "!">>

SignupForm(name, email, password) ==
    [name |-> name, email |-> email, password |-> password]

\* the same address in several casings and with blanks around it, a second
\* address, and the forms with one field empty, blank or weak
SignupForms ==
    {SignupForm(NameText, e, StrongPassword) :
        e \in {MailA, <<"A", "@", "X">>, <<" ", "a", "@", "X", " ">>, MailB}}
    \cup {SignupForm(<<>>, MailA, StrongPassword),
          SignupForm(NameText, <<" ">>, StrongPassword),
          SignupForm(NameText, MailB, WeakPassword),
          SignupForm(NameText, MailB, ShortPassword),
          SignupForm(NameText, MailB, <<>>),
          <<>>}

LoginForms ==
    {[email |-> e, password |-> p] :
        e \in {MailA, <<"A", "@", "x">>, MailB},
        p \in {StrongPassword, OtherPassword}}

LoginArgs == {None, [next |-> <<"/petshop">>], [next |-> <<"/bike-rental", 1>>]}

\* one account, enough to reach the protected routes
OneSignupForm == {SignupForm(NameText, MailA, StrongPassword)}
OneLoginForm == {[email |-> MailA, password |-> StrongPassword]}

\* two catalog ids, the id 1 written with a leading zero, an id that is not
\* in the catalog and a text that is no number
ProductIdInputs == {<<"1">>, <<"2">>, <<"0", "1">>, <<"9">>, <<"x">>}

AddForms == {[product_id |-> k] : k \in ProductIdInputs} \cup {<<>>}

RemoveForms == {[remove_id |-> k] : k \in ProductIdInputs} \cup {<<>>}

ContactForm(name, email, phone) == [name |-> name, email |-> email, phone |-> phone]

CheckoutForms ==
    {ContactForm(NameText, MailA, PhoneText),
     ContactForm(NameText, MailA, <<" ">>),
     ContactForm(<<>>, MailA, PhoneText),
     [name |-> NameText, phone |-> PhoneText]}

Jan01 == <<"2", "0", "2", "4", "-", "0", "1", "-", "0", "1">>
Jan03 == <<"2", "0", "2", "4", "-", "0", "1", "-", "0", "3">>
Jan05 == <<"2", "0", "2", "4", "-", "0", "1", "-", "0", "5">>
Feb28 == <<"2", "0", "2", "4", "-", "0", "2", "-", "2", "8">>
Mar01 == <<"2", "0", "2", "4", "-", "0", "3", "-", "0", "1">>
Feb29NoLeap == <<"2", "0", "2", "3", "-", "0", "2", "-", "2", "9">>
NotADate == <<"s", "o", "o", "n">>

BookingForm(name, email, phone, start, end) ==
    [name |-> name, email |-> email, phone |-> phone,
     start_date |-> start, end_date |-> end]

\* one day, three days over the leap day, and the same in reverse
DatePairs == {<<Feb28, Feb28>>, <<Feb28, Mar01>>, <<Mar01, Feb28>>}

BookingForms ==
    {BookingForm(NameText, MailA, PhoneText, d[1], d[2]) : d \in DatePairs}
    \cup {BookingForm(NameText, MailA, PhoneText, Feb29NoLeap, Mar01),
          BookingForm(NameText, MailA, PhoneText, Jan01, NotADate),
          BookingForm(NameText, MailA, PhoneText, Jan05, Jan01),
          BookingForm(NameText, MailA, <<>>, Jan01, Jan03),
          BookingForm(<<" ">>, MailA, PhoneText, Jan01, Jan03),
          [name |-> NameText, email |-> MailA, phone |-> PhoneText,
           end_date |-> Jan03]}

\* the first and the last id of the catalog and one past it
BikeIdInputs == {1, Len(bikes), Len(bikes) + 1}

TitleText == <<"t">>
ContentText == <<"c">>

DataHubForms ==
    {[title |-> TitleText, content |-> ContentText],
     [title |-> <<" ">>, content |-> ContentText],
     [title |-> TitleText, content |-> <<>>],
     <<>>}

-----------------------------------------------------------------------------
(* The application.                                                        *)

Init ==
    /\ users = <<>>
    /\ datahub_records = {}
    /\ datahub_seq = 0
    /\ bike_bookings = <<>>
    /\ pet_orders = <<>>
    /\ pet_order_items = <<>>
    /\ session = <<>>
    /\ outbox = <<>>
    /\ now = 0
    /\ req = Request("", "", 0, None, None, None)
    /\ resp = Render("", "", "")

\* accounts and the login gate, with a cart to carry through them
NextAuth ==
    \/ signup("GET", None)
    \/ \E form \in SignupForms : signup("POST", form)
    \/ \E args \in LoginArgs : login("GET", args, None)
    \/ \E args \in LoginArgs, form \in LoginForms : login("POST", args, form)
    \/ logout
    \/ bike_rental
    \/ \E form \in {[product_id |-> <<"1">>]} : pet_home("POST", form)
    \/ pet_cart("GET", None)
    \/ pet_checkout("GET", None, 0, TRUE)
    \/ bike_detail(1, "GET", None)
    \/ bike_booking_success(1, TRUE)
    \/ datahub("GET", None)
    \/ delete_datahub_record(1)

SpecAuth == Init /\ [][NextAuth]_vars

\* the pet shop, with one account
NextShop ==
    \/ \E form \in OneSignupForm : signup("POST", form)
    \/ \E form \in OneLoginForm : login("POST", None, form)
    \/ logout
    \/ pet_home("GET", None)
    \/ \E form \in AddForms : pet_home("POST", form)
    \/ pet_cart("GET", None)
    \/ \E form \in RemoveForms : pet_cart("POST", form)
    \/ pet_checkout("GET", None, 0, TRUE)
    \/ \E form \in CheckoutForms, fault \in 0..(Len(pet_products) + 2),
          mail_ok \in BOOLEAN :
          pet_checkout("POST", form, fault, mail_ok)

SpecShop == Init /\ [][NextShop]_vars

\* the bike rental, with one account
NextBike ==
    \/ \E form \in OneSignupForm : signup("POST", form)
    \/ \E form \in OneLoginForm : login("POST", None, form)
    \/ logout
    \/ bike_rental
    \/ \E bike_id \in BikeIdInputs : bike_detail(bike_id, "GET", None)
    \/ \E bike_id \in BikeIdInputs, form \in BookingForms :
          bike_detail(bike_id, "POST", form)
    \/ \E booking_id \in 1..(MaxRows + 1), mail_ok \in BOOLEAN :
          /\ bike_booking_success(booking_id, mail_ok)
          /\ Len(outbox') <= MaxReceipts

SpecBike == Init /\ [][NextBike]_vars

\* the DataHub, with one account
NextHub ==
    \/ \E form \in OneSignupForm : signup("POST", form)
    \/ \E form \in OneLoginForm : login("POST", None, form)
    \/ logout
    \/ datahub("GET", None)
    \/ \E form \in DataHubForms :
          /\ datahub("POST", form)
          /\ Cardinality(datahub_records') <= MaxRecords
    \/ \E record_id \in 1..(MaxRecords + 1) : delete_datahub_record(record_id)
    \/ Tick

SpecHub == Init /\ [][NextHub]_vars

\* the whole application, with fewer inputs per route
NextApp ==
    \/ signup("GET", None)
    \/ \E form \in {SignupForm(NameText, MailA, StrongPassword),
                    SignupForm(NameText, MailB, ShortPassword),
                    SignupForm(<<>>, MailB, StrongPassword)} :
          signup("POST", form)
    \/ \E form \in {[email |-> MailA, password |-> StrongPassword],
                    [email |-> MailA, password |-> OtherPassword]} :
          login("POST", None, form)
    \/ logout
    \/ datahub("GET", None)
    \/ \E form \in DataHubForms :
          /\ datahub("POST", form)
          /\ Len(bike_bookings') + Len(pet_orders')
                 + Cardinality(datahub_records') <= MaxRows
    \/ \E record_id \in 1..(MaxRows + 1) : delete_datahub_record(record_id)
    \/ bike_rental
    \/ \E bike_id \in {1, Len(bikes) + 1} : bike_detail(bike_id, "GET", None)
    \/ \E bike_id \in {1, Len(bikes) + 1},
          form \in {BookingForm(NameText, MailA, PhoneText, Feb28, Mar01),
                    BookingForm(NameText, MailA, PhoneText, Feb28, NotADate),
                    BookingForm(NameText, <<>>, PhoneText, Feb28, Mar01)} :
          bike_detail(bike_id, "POST", form)
    \/ \E booking_id \in 1..(MaxRows + 1), mail_ok \in BOOLEAN :
          /\ bike_booking_success(booking_id, mail_ok)
          /\ Len(outbox') <= MaxMail
    \/ pet_home("GET", None)
    \/ \E form \in {[product_id |-> <<"1">>], [product_id |-> <<"x">>], <<>>} :
          pet_home("POST", form)
    \/ pet_cart("GET", None)
    \/ \E form \in {[remove_id |-> <<"1">>], <<>>} : pet_cart("POST", form)
    \/ pet_checkout("GET", None, 0, TRUE)
    \/ \E form \in {ContactForm(NameText, MailA, PhoneText),
                    ContactForm(NameText, MailA, <<>>)},
          fault \in 0..1, mail_ok \in BOOLEAN :
          pet_checkout("POST", form, fault, mail_ok)

Spec == Init /\ [][NextApp]_vars

\* is_strong_password alone: a password is drawn and the function applied
PasswordAlphabet == {"a", "Z", "7", "!", "e-acute", "E-acute"}

Pad(n) == [i \in 1..n |-> "a"]

RECURSIVE Tails(_)
Tails(n) ==
    IF n = 0 THEN {<<>>}
    ELSE Tails(n - 1) \cup
         {Append(t, c) : t \in {u \in Tails(n - 1) : Len(u) = n - 1},
                         c \in PasswordAlphabet}

PasswordInputs == {Pad(n) \o t : n \in 0..MaxPad, t \in Tails(MaxTail)}

InitPassword ==
    /\ users = <<>>
    /\ datahub_records = {}
    /\ datahub_seq = 0
    /\ bike_bookings = <<>>
    /\ pet_orders = <<>>
    /\ pet_order_items = <<>>
    /\ session = <<>>
    /\ outbox = <<>>
    /\ now = 0
    /\ req \in {Request("is_strong_password", "", 0, None, [password |-> p], None) :
                   p \in PasswordInputs}
    /\ resp = [returned |-> FALSE, value |-> FALSE]

CallIsStrongPassword ==
    /\ ~resp.returned
    /\ resp' = [returned |-> TRUE, value |-> is_strong_password(req.form.password)]
    /\ UNCHANGED <<db, session, outbox, now, req>>

SpecPassword == InitPassword /\ [][CallIsStrongPassword]_vars

-----------------------------------------------------------------------------
(* Properties.                                                             *)

ItemsOf(order_id) ==
    {j \in 1..Len(pet_order_items) : pet_order_items[j].order_id = order_id}

ItemsTotal(order_id) ==
    SumOver([j \in 1..Len(pet_order_items) |->
                pet_order_items[j].quantity * pet_order_items[j].price_each],
            ItemsOf(order_id))

\* C1: every persisted order's total_amount is the sum, over the order items
\* created for it, of quantity times price_each.
C1_OrderTotalIsSumOfItems ==
    \A i \in 1..Len(pet_orders) :
        pet_orders[i].total_amount = ItemsTotal(pet_orders[i].id)

\* an order of two Premium Dog Food at 799 and one Cat Scratching Post at
\* 1299, in all 2897
C1_Witness ==
    \E i \in 1..Len(pet_orders) :
        /\ pet_orders[i].total_amount = 2897
        /\ \E j, k \in ItemsOf(pet_orders[i].id) :
              /\ pet_order_items[j].quantity = 2
              /\ pet_order_items[j].price_each = 799
              /\ pet_order_items[k].quantity = 1
              /\ pet_order_items[k].price_each = 1299

BookingIsPriced(b) ==
    LET start == fromisoformat(b.start_date)
        end == fromisoformat(b.end_date)
    IN  /\ start.ok /\ end.ok
        /\ end.ord >= start.ord
        /\ \E i \in 1..Len(bikes) :
              /\ bikes[i].id = b.bike_id
              /\ b.total_price = bikes[i].price_per_day * (end.ord - start.ord + 1)

ReversedDates(form) ==
    LET start == fromisoformat(Strip(FormGet(form, "start_date")))
        end == fromisoformat(Strip(FormGet(form, "end_date")))
    IN  start.ok /\ end.ok /\ end.ord < start.ord

\* C2: every persisted booking has end_date >= start_date and total_price =
\* price_per_day times the days from start to end, both included; a booking
\* submitted with end_date < start_date fails validation and persists nothing.
C2_BookingPricedInclusive ==
    [][/\ \A i \in 1..Len(bike_bookings') : BookingIsPriced(bike_bookings'[i])
       /\ (req'.route = "bike_detail" /\ req'.method = "POST"
           /\ ReversedDates(req'.form))
          => /\ bike_bookings' = bike_bookings
             /\ resp'.view # "bike_booking_success"]_vars

\* 2024-02-28 to 2024-03-01 on the Yamaha at 900 a day: three days over the
\* leap day, 2700; and 2024-01-05 to 2024-01-01 was refused
C2_Witness ==
    /\ \E i \in 1..Len(bike_bookings) :
          /\ bike_bookings[i].bike_id = 1
          /\ bike_bookings[i].start_date = Feb28
          /\ bike_bookings[i].end_date = Mar01
          /\ bike_bookings[i].total_price = 2700
    /\ req.route = "bike_detail"
    /\ FormGet(req.form, "start_date") = Jan05
    /\ resp.error = "End date must be on or after start date."

ProtectedRoutes ==
    {"datahub", "delete_datahub_record", "bike_rental", "bike_detail",
     "bike_booking_success", "pet_home", "pet_cart", "pet_checkout"}

\* C3: a request to a protected route made while the session has no user_id
\* is redirected to login and changes nothing: no row is inserted or
\* deleted, no notification is sent, the session is as it was.
C3_UnauthenticatedChangesNothing ==
    [][("user_id" \notin DOMAIN session /\ req'.route \in ProtectedRoutes)
       => /\ resp'.code = 302 /\ resp'.view = "login"
          /\ db' = db
          /\ outbox' = outbox
          /\ session' = session]_vars

\* a logged-out caller asked to delete a DataHub record that exists
C3_Witness ==
    /\ "user_id" \notin DOMAIN session
    /\ req.route = "delete_datahub_record"
    /\ \E r \in datahub_records : r.id = req.arg
    /\ resp.view = "login"

SameEmailRegistered(raw) ==
    \E i \in 1..Len(users) : Lower(users[i].email) = Lower(Strip(raw))

\* C4: a signup with an email that is already registered, in any letter
\* casing, fails and creates no user row; no two user rows share the same
\* lower-cased email.
C4_EmailUniqueAnyCasing ==
    [][/\ \A i, j \in 1..Len(users') :
             Lower(users'[i].email) = Lower(users'[j].email) => i = j
       /\ (req'.route = "signup" /\ req'.method = "POST"
           /\ SameEmailRegistered(FormGet(req'.form, "email")))
          => /\ users' = users
             /\ resp'.view # "login"]_vars

\* A@X was refused because a@x is registered
C4_Witness ==
    /\ req.route = "signup"
    /\ FormGet(req.form, "email") = <<"A", "@", "X">>
    /\ resp.error = "An account with this email already exists."
    /\ Len(users) = 1

Chars(text) == {text[i] : i \in 1..Len(text)}

\* the letters and digits of Unicode among the characters of the model
UpperLetters == AsciiUpper \cup {"E-acute"}
Letters == AsciiUpper \cup AsciiLower \cup {"e-acute", "E-acute"}
Digits == AsciiDigit

\* C5, as claimed: is_strong_password(p) iff len(p) >= 8 and p holds an
\* uppercase letter, a digit and a character that is not alphanumeric.
C5_StrongIffClaimed ==
    resp.returned =>
        LET p == req.form.password
        IN  resp.value <=> /\ Len(p) >= 8
                           /\ Chars(p) \cap UpperLetters # {}
                           /\ Chars(p) \cap Digits # {}
                           /\ Chars(p) \ (Letters \cup Digits) # {}

\* C5, amended: is_strong_password(p) iff len(p) >= 8 and p holds one of
\* A-Z, one of 0-9 and a character that is none of A-Z, a-z, 0-9.
C5_StrongIffAscii ==
    resp.returned =>
        LET p == req.form.password
        IN  resp.value <=>
                /\ Len(p) >= 8
                /\ Chars(p) \cap AsciiUpper # {}
                /\ Chars(p) \cap AsciiDigit # {}
                /\ Chars(p) \ (AsciiUpper \cup AsciiLower \cup AsciiDigit) # {}

\* a password of exactly 8 characters was accepted, and one whose only
\* character outside A-Z, a-z, 0-9 is a letter was accepted
C5_Witness ==
    /\ resp.returned /\ resp.value
    /\ Len(req.form.password) = 8
    /\ Chars(req.form.password) \subseteq Letters \cup Digits

CheckoutSucceeded(r) == r.view = "pet_checkout_success.html"

\* the rows a checkout of this cart writes into pet_order_items
CheckoutItems == OrderItemRows(Len(pet_orders) + 1, Materialize(get_cart(session)))

\* C6: the order row and all of its order item rows become visible together
\* or not at all; when a statement of the checkout fails before the commit
\* has succeeded, no row of that checkout is in the store.
C6_CheckoutAtomic ==
    [][/\ \/ pet_orders' = pet_orders /\ pet_order_items' = pet_order_items
          \/ /\ Len(pet_orders') = Len(pet_orders) + 1
             /\ SubSeq(pet_orders', 1, Len(pet_orders)) = pet_orders
             /\ pet_order_items' = pet_order_items \o CheckoutItems
       /\ (req'.route = "pet_checkout" /\ req'.env.fault > 0)
          => pet_orders' = pet_orders /\ pet_order_items' = pet_order_items]_vars

\* the second insert of a checkout failed, after the order row was written
C6_Witness ==
    /\ req.route = "pet_checkout"
    /\ req.env.fault = 2
    /\ resp.code = 500
    /\ get_cart(session) # <<>>

\* C7: the cart is empty right after a successful checkout, which has
\* committed the order; after every other checkout request (GET, a missing
\* contact field, a failure before or during persistence) the session is as
\* it was.
C7_CartClearedOnlyAfterCommit ==
    [][req'.route = "pet_checkout"
       => IF CheckoutSucceeded(resp')
          THEN /\ get_cart(session') = <<>>
               /\ Len(pet_orders') = Len(pet_orders) + 1
          ELSE session' = session]_vars

\* a checkout succeeded and left an empty cart beside the order
C7_Witness ==
    /\ req.route = "pet_checkout"
    /\ CheckoutSucceeded(resp)
    /\ "cart" \in DOMAIN session /\ session["cart"] = <<>>
    /\ Len(pet_orders) = 1

\* C8, as claimed: a successful checkout inserts one order row and one order
\* item row per cart entry, the item carrying the entry's positive quantity
\* and the product's current price.
C8_OneItemPerCartEntry ==
    [][(req'.route = "pet_checkout" /\ CheckoutSucceeded(resp'))
       => LET cart == get_cart(session)
              added == SubSeq(pet_order_items', Len(pet_order_items) + 1,
                              Len(pet_order_items'))
          IN  /\ Len(pet_orders') = Len(pet_orders) + 1
              /\ Len(added) = Cardinality(DOMAIN cart)
              /\ \A k \in DOMAIN cart :
                    \E j \in 1..Len(added), i \in 1..Len(pet_products) :
                        /\ PyInt(k).val = pet_products[i].id
                        /\ added[j].product_name = pet_products[i].name
                        /\ added[j].price_each = pet_products[i].price
                        /\ added[j].quantity = cart[k]
                        /\ added[j].quantity > 0]_vars

\* C9, as claimed: remove_item on an id that is not in the cart leaves the
\* cart unchanged and raises nothing; on an id in the cart it deletes that
\* entry and no other.
C9_RemoveItem ==
    [][(req'.route = "pet_cart" /\ req'.method = "POST"
        /\ "user_id" \in DOMAIN session)
       => LET cart == get_cart(session)
              remove_id == FormGet(req'.form, "remove_id")
          IN  /\ resp'.code # 500
              /\ get_cart(session') =
                     [k \in DOMAIN cart \ {remove_id} |-> cart[k]]]_vars

EmptyText(form, key) == Strip(FormGet(form, key)) = <<>>

\* weak, by the wording of the signup page's message and the length 8
WeakAsStated(p) ==
    \/ Len(p) < 8
    \/ Chars(p) \cap AsciiUpper = {}
    \/ Chars(p) \cap AsciiDigit = {}
    \/ Chars(p) \ (AsciiUpper \cup AsciiLower \cup AsciiDigit) = {}

ValidationFails(r) ==
    /\ r.method = "POST"
    /\ \/ /\ r.route = "signup"
          /\ \/ \E key \in {"name", "email", "password"} : EmptyText(r.form, key)
             \/ WeakAsStated(Strip(FormGet(r.form, "password")))
       \/ /\ r.route = "bike_detail"
          /\ \/ \E key \in {"name", "email", "phone", "start_date", "end_date"} :
                   EmptyText(r.form, key)
             \/ ~fromisoformat(Strip(FormGet(r.form, "start_date"))).ok
             \/ ~fromisoformat(Strip(FormGet(r.form, "end_date"))).ok
       \/ /\ r.route = "pet_checkout"
          /\ \E key \in {"name", "email", "phone"} : EmptyText(r.form, key)
       \/ /\ r.route = "datahub"
          /\ \E key \in {"title", "content"} : EmptyText(r.form, key)

\* C10: a request that fails validation (a signup with an empty field or a
\* weak password, a booking with a missing field or an unparseable date, a
\* checkout with a missing contact field, a DataHub create with an empty
\* title or content) inserts no row and leaves the session's user_id and
\* cart as they were.
C10_ValidationFailureChangesNothing ==
    [][ValidationFails(req')
       => /\ db' = db
          /\ SessionUserId(session') = SessionUserId(session)
          /\ get_cart(session') = get_cart(session)
          /\ ("cart" \in DOMAIN session') = ("cart" \in DOMAIN session)]_vars

\* a checkout without a phone number was refused while the cart held an item
C10_Witness ==
    /\ req.route = "pet_checkout"
    /\ resp.error = "Name, email, and mobile number are required."
    /\ get_cart(session) # <<>>
    /\ "user_id" \in DOMAIN session

MailFailed(r) ==
    /\ r.route \in {"pet_checkout", "bike_booking_success"}
    /\ ~r.env.mail_ok

\* C11: a notification failure (missing mail credentials included) never
\* fails or rolls back a transaction: when send_email raises, the order the
\* checkout has committed stays with its items, the bookings on the receipt
\* page stay as they are, and the request answers with its success page.
C11_MailFailureIsHarmless ==
    [][MailFailed(req')
       => /\ resp'.code = 200
          /\ IF req'.route = "pet_checkout"
             THEN /\ CheckoutSucceeded(resp')
                  /\ Len(pet_orders') = Len(pet_orders) + 1
                  /\ SubSeq(pet_orders', 1, Len(pet_orders)) = pet_orders
                  /\ pet_order_items' = pet_order_items \o CheckoutItems
             ELSE /\ resp'.view = "bike_booking_success.html"
                  /\ db' = db]_vars

\* the mail of a checkout failed; the order is there and the customer saw the
\* success page
C11_Witness ==
    /\ MailFailed(req)
    /\ req.route = "pet_checkout"
    /\ CheckoutSucceeded(resp)
    /\ Len(pet_orders) = 1
    /\ Len(pet_order_items) >= 1
    /\ Len(outbox) = 1

LoginSucceeded(r) == r.code = 302 /\ r.flash = "Logged in successfully."

\* C12: logout clears all session state unconditionally: whatever the session
\* held, after logout it holds neither a user_id nor a cart; and while the
\* session holds no user_id every protected route is refused, a user_id
\* coming back only through a successful login.
C12_LogoutClearsSession ==
    [][/\ req'.route = "logout"
          => /\ "user_id" \notin DOMAIN session'
             /\ "cart" \notin DOMAIN session'
             /\ session' = <<>>
       /\ ("user_id" \notin DOMAIN session /\ req'.route \in ProtectedRoutes)
          => resp'.code = 302 /\ resp'.view = "login"
       /\ ("user_id" \notin DOMAIN session /\ "user_id" \in DOMAIN session')
          => req'.route = "login" /\ LoginSucceeded(resp')]_vars

\* a registered user has logged out and the session is empty
C12_Witness ==
    /\ req.route = "logout"
    /\ resp.view = "index"
    /\ session = <<>>
    /\ Len(users) = 1

\* the users whose stored email is the normalized email of the form and
\* whose stored hash is that of the form's password
Matching(form) ==
    {i \in 1..Len(users) :
        /\ users[i].email = Lower(Strip(FormGet(form, "email")))
        /\ users[i].password_hash.of = Strip(FormGet(form, "password"))}

\* C13: a login POST sets the session's user_id to the id of the user whose
\* normalized email and password both match, leaving the cart alone; a
\* failed login (unknown email or wrong password) and a login GET leave the
\* session's user_id and cart unchanged.
C13_LoginBindsOnlyOnSuccess ==
    [][req'.route = "login"
       => IF req'.method = "POST" /\ Matching(req'.form) # {}
          THEN /\ LoginSucceeded(resp')
               /\ \E i \in Matching(req'.form) :
                     SessionUserId(session') = users[i].id
               /\ get_cart(session') = get_cart(session)
               /\ DOMAIN session' = DOMAIN session \cup {"user_id"}
          ELSE /\ ~LoginSucceeded(resp')
               /\ session' = session]_vars

\* the second user logged in, filled a cart, and then a login for the first
\* user with a wrong password failed: the session still names the second
\* user and holds the cart
C13_Witness ==
    /\ req.route = "login"
    /\ resp.error = "Invalid email or password."
    /\ FormGet(req.form, "email") = MailA
    /\ Len(users) = 2
    /\ \E i \in 1..Len(users) : users[i].email = MailA /\ users[i].id = 1
    /\ SessionUserId(session) = 2
    /\ get_cart(session) # <<>>

Registered(form) ==
    \E i \in 1..Len(users) : users[i].email = Lower(Strip(FormGet(form, "email")))

\* C14: a failed login does not reveal why it failed: a login POST that fails
\* on an unregistered email and one that fails on a registered email with a
\* wrong password get the same response, which names neither cause, and both
\* leave the session as it was.
C14_FailedLoginIsGeneric ==
    [][(req'.route = "login" /\ req'.method = "POST" /\ Matching(req'.form) = {})
       => LET generic == Render("login.html", "Invalid email or password.", "")
          IN  /\ ~Registered(req'.form) => resp' = generic /\ session' = session
              /\ Registered(req'.form) => resp' = generic /\ session' = session]_vars

\* a login for a registered email with a wrong password has failed
C14_Witness ==
    /\ req.route = "login" /\ req.method = "POST"
    /\ Registered(req.form)
    /\ Matching(req.form) = {}
    /\ resp.error = "Invalid email or password."
    /\ \E i \in 1..Len(users) : users[i].email = MailB

\* the request names a bike, a booking or a DataHub record that is not there
UnknownId(r) ==
    \/ /\ r.route = "bike_detail"
       /\ \A i \in 1..Len(bikes) : bikes[i].id # r.arg
    \/ /\ r.route = "bike_booking_success"
       /\ \A i \in 1..Len(bike_bookings) : bike_bookings[i].id # r.arg
    \/ /\ r.route = "delete_datahub_record"
       /\ \A rec \in datahub_records : rec.id # r.arg

\* C15, as claimed: every operation of a logged-in caller addressed to an
\* unknown id (a bike id on bike detail or booking, a booking id on the
\* confirmation page, a record id on DataHub delete) is answered with 404 and
\* changes no state.
C15_UnknownIdIs404 ==
    [][("user_id" \in DOMAIN session /\ UnknownId(req'))
       => /\ resp'.code = 404
          /\ db' = db
          /\ session' = session
          /\ outbox' = outbox]_vars

\* C16: a checkout request, GET or POST, made by a logged-in caller with an
\* empty cart gets the empty-cart outcome: it is redirected to the catalog
\* with the message that the cart is empty, and no order row and no order
\* item row is created.
C16_EmptyCartCheckoutRefused ==
    [][(/\ req'.route = "pet_checkout"
        /\ "user_id" \in DOMAIN session
        /\ get_cart(session) = <<>>)
       => /\ resp' = Redirect("pet_home", "Your cart is empty.", None)
          /\ pet_orders' = pet_orders
          /\ pet_order_items' = pet_order_items
          /\ outbox' = outbox
          /\ session' = session]_vars

\* right after a successful checkout had emptied the cart, the complete
\* checkout form was posted again and refused
C16_Witness ==
    /\ req.route = "pet_checkout" /\ req.method = "POST"
    /\ req.form = ContactForm(NameText, MailA, PhoneText)
    /\ resp.flash = "Your cart is empty."
    /\ "cart" \in DOMAIN session /\ session["cart"] = <<>>
    /\ Len(pet_orders) = 1

Listed(r) == r.route = "datahub" /\ "user_id" \in DOMAIN session

\* the listing holds every record once, most recent created_at first
MostRecentFirst(listing, rows) ==
    /\ Len(listing) = Cardinality(rows)
    /\ {listing[i] : i \in 1..Len(listing)} = rows
    /\ \A i, j \in 1..Len(listing) :
          i < j => listing[i].created_at >= listing[j].created_at

\* the record a request has created
Created == CHOOSE r \in datahub_records' \ datahub_records : TRUE

\* C17, as claimed: a DataHub record created with (title, content) appears
\* first in the listing that follows whenever its created_at is the maximum
\* among all records, that is, no record has a greater one; the listing is
\* ordered most-recent-first by created_at.
C17_CreatedRecordListedFirst ==
    [][Listed(req')
       => /\ MostRecentFirst(resp'.records, datahub_records')
          /\ datahub_records' # datahub_records
             => /\ Created.title = Strip(FormGet(req'.form, "title"))
                /\ Created.content = Strip(FormGet(req'.form, "content"))
                /\ (\A r \in datahub_records' : r.created_at <= Created.created_at)
                   => resp'.records[1] = Created]_vars

\* C17, amended: a DataHub record created with (title, content) appears first
\* in the listing that follows whenever its created_at is greater than that
\* of every other record; the listing is ordered most-recent-first by
\* created_at.
C17_LaterRecordListedFirst ==
    [][Listed(req')
       => /\ MostRecentFirst(resp'.records, datahub_records')
          /\ datahub_records' # datahub_records
             => /\ Created.title = Strip(FormGet(req'.form, "title"))
                /\ Created.content = Strip(FormGet(req'.form, "content"))
                /\ (\A r \in datahub_records : r.created_at < Created.created_at)
                   => resp'.records[1] = Created]_vars

\* a record was created a second after another and is listed before it
C17_Witness ==
    /\ req.route = "datahub" /\ req.method = "POST"
    /\ resp.flash = "Record added to DataHub."
    /\ Len(resp.records) = 2
    /\ resp.records[1].id = datahub_seq
    /\ resp.records[1].title = TitleText
    /\ resp.records[1].created_at > resp.records[2].created_at

\* request.path of a request to a protected route
PathOf(r) ==
    CASE r.route = "datahub" -> <<"/datahub">>
      [] r.route = "delete_datahub_record" -> <<"/datahub/delete", r.arg>>
      [] r.route = "bike_rental" -> <<"/bike-rental">>
      [] r.route = "bike_detail" -> <<"/bike-rental", r.arg>>
      [] r.route = "bike_booking_success" -> <<"/bike-rental/booking", r.arg>>
      [] r.route = "pet_home" -> <<"/petshop">>
      [] r.route = "pet_cart" -> <<"/petshop/cart">>
      [] r.route = "pet_checkout" -> <<"/petshop/checkout">>

\* C18: the requested path is preserved across the login redirect: a request
\* without identity to the protected path P is redirected to login carrying
\* next = P, and a successful login carrying a next value redirects the
\* caller to that value, to the home page when it carries none.
C18_NextPreserved ==
    [][/\ ("user_id" \notin DOMAIN session /\ req'.route \in ProtectedRoutes)
          => /\ resp'.code = 302 /\ resp'.view = "login"
             /\ resp'.next = PathOf(req')
       /\ (req'.route = "login" /\ LoginSucceeded(resp'))
          => /\ resp'.view = "redirect"
             /\ resp'.next = IF "next" \in DOMAIN req'.args
                             THEN req'.args["next"]
                             ELSE <<"/">>]_vars

\* a login that carried next = /bike-rental/1, the path a refused request for
\* that bike was given, succeeded and sent the caller there
C18_Witness ==
    /\ req.route = "login"
    /\ LoginSucceeded(resp)
    /\ req.args = [next |-> LoginRedirect(<<"/bike-rental", 1>>).next]
    /\ resp.next = <<"/bike-rental", 1>>
    /\ SessionUserId(session) # 0

AddsItem(r) ==
    /\ r.route = "pet_home" /\ r.method = "POST"
    /\ "user_id" \in DOMAIN session
    /\ FormGet(r.form, "product_id") # <<>>

\* add_item on the cart: one more of product_id, or a first one
AddedOne(cart, after, product_id) ==
    /\ DOMAIN after = DOMAIN cart \cup {product_id}
    /\ after[product_id] =
           (IF product_id \in DOMAIN cart THEN cart[product_id] ELSE 0) + 1
    /\ \A k \in DOMAIN cart \ {product_id} : after[k] = cart[k]

\* the text is the decimal writing of an integer, as a product id is
IsProductIdString(k) ==
    /\ k # <<>>
    /\ \A i \in 1..Len(k) : k[i] \in AsciiDigit

\* C19, as claimed: add_item increments the quantity of an existing entry by
\* 1 or inserts a new entry with quantity 1, leaves the other entries
\* unchanged and does not check that the product exists; after any sequence
\* of add, remove and checkout every cart key is a product-id string mapped
\* to a positive integer quantity.
C19_CartWellFormed ==
    [][/\ AddsItem(req')
          => AddedOne(get_cart(session), get_cart(session'),
                      FormGet(req'.form, "product_id"))
       /\ \A k \in DOMAIN get_cart(session') :
             /\ IsProductIdString(k)
             /\ get_cart(session')[k] \in Nat \ {0}]_vars

\* the cart entries whose product is in the catalog
PricedEntries(cart) ==
    {k \in DOMAIN cart :
        PyInt(k).ok /\ \E i \in 1..Len(pet_products) : pet_products[i].id = PyInt(k).val}

PriceOf(id) == pet_products[CHOOSE i \in 1..Len(pet_products) : pet_products[i].id = id].price

\* quantity times current price, summed over those entries
PricedTotal(cart) ==
    SumOver([k \in PricedEntries(cart) |-> cart[k] * PriceOf(PyInt(k).val)],
            PricedEntries(cart))

Materializes(r) ==
    /\ r.route \in {"pet_cart", "pet_checkout"}
    /\ "user_id" \in DOMAIN session
    /\ r.route = "pet_checkout" => r.env.fault = 0

\* C20, as claimed: for every cart reachable through add_item with an
\* arbitrary submitted product_id, the cart view and the checkout materialize
\* the cart without raising: entries whose product is not in the catalog are
\* dropped, the others are priced as quantity times current price, and an
\* empty cart gives no rows and the total 0.
C20_MaterializeTolerant ==
    [][Materializes(req')
       => LET cart == get_cart(session)
          IN  /\ resp'.code # 500
              /\ Len(Materialize(cart)) = Cardinality(PricedEntries(cart))
              /\ TotalAmount(Materialize(cart)) = PricedTotal(cart)
              /\ cart = <<>> => Materialize(cart) = <<>>]_vars

\* the receipt mails attempted for a booking
ReceiptsOf(booking_id) ==
    {m \in 1..Len(outbox) :
        /\ outbox[m].subject = "Your Bike Rental Receipt"
        /\ outbox[m].ref = booking_id}

\* C21, as claimed: each booking runs once through Draft, Validated,
\* Persisted, Notified, Complete: a receipt is attempted only for a booking
\* whose row is committed, and at most once per persisted booking over any
\* sequence of requests.
C21_ReceiptAtMostOnce ==
    \A m \in 1..Len(outbox) :
        outbox[m].subject = "Your Bike Rental Receipt"
        => /\ \E i \in 1..Len(bike_bookings) : bike_bookings[i].id = outbox[m].ref
           /\ Cardinality(ReceiptsOf(outbox[m].ref)) <= 1

\* C22, as claimed: in every reachable state every persisted order has one
\* or more order items, each with a quantity of at least 1.
C22_OrderHasItems ==
    \A i \in 1..Len(pet_orders) :
        /\ ItemsOf(pet_orders[i].id) # {}
        /\ \A j \in ItemsOf(pet_orders[i].id) : pet_order_items[j].quantity >= 1

\* C23: in every reachable session state a cart that is not empty implies
\* that user_id is set: the cart is only written by the logged-in, logout
\* clears it with the identity, so no anonymous session holds cart entries.
C23_CartImpliesIdentity ==
    /\ get_cart(session) # <<>> => SessionUserId(session) # 0
    /\ "cart" \in DOMAIN session => "user_id" \in DOMAIN session

\* a logged-in customer has just put a second unit into the cart
C23_Witness ==
    /\ req.route = "pet_home"
    /\ resp.flash = "Item added to cart."
    /\ CartCount(get_cart(session)) = 2
    /\ SessionUserId(session) = 1

=============================================================================
